---- MODULE Spec2Model ----
(***************************************************************************)
(* Model of the BRI direct-debit client (package bri).                     *)
(*                                                                         *)
(*   - Client.NewRequest / Client.ExecuteRequest / Client.Call: the HTTP    *)
(*     transport, its status classification, its decoding into the success *)
(*     sink v and the error sink vErr, and its level-gated logging.         *)
(*   - Client.DirectDebitHostUseSandboxPrefix: the rewrite of the           *)
(*     package-level endpoint paths.                                        *)
(*   - CoreGateway.CreateCardTokenOTP, CreateCardTokenOTPVerify,            *)
(*     CreatePaymentChargeOTP, CreatePaymentChargeOTPVerify: the signed     *)
(*     operations.                                                          *)
(*                                                                         *)
(* Two specifications share the variables.  Spec exercises Client.Call on  *)
(* every input of the bounded sets.  SpecFacade runs one caller of the     *)
(* four operations next to one caller of the endpoint switch; the package  *)
(* variables are written and read without any synchronisation, so the      *)
(* switch's seven stores become visible one at a time and in any order.    *)
(*                                                                         *)
(* Paths are sequences of segments: "/v1/rt-directdebit/tokens" is         *)
(* <<"v1", "rt-directdebit", "tokens">>.                                   *)
(***************************************************************************)
EXTENDS Naturals, Sequences, FiniteSets

VARIABLES url, sw, op, wire, call

vars == <<url, sw, op, wire, call>>

(***************************** bounds **************************************)
MaxLogLevel == 3
MaxTime == 1

(***************************** errors **************************************)
NoErr == "nil"
ErrInvalidMethod == "net/http: invalid method"
ErrParseURL == "parse: invalid URL"
ErrTransport == "Do: i/o error"
ErrRead == "ReadAll: read error"
ErrInvalidURL == "invalid url"
ErrEmptyResponse == "204: empty response"
ErrPendingTransaction == "ErrPendingTransaction"
ErrUnmarshalV == "json: cannot unmarshal into v"
ErrUnmarshalVErr == "json: cannot unmarshal into vErr"

(***************************** log lines ***********************************)
LogRequestCreationFailed == "Request creation failed: "
LogRequest == "Request "
LogCannotSend == "Cannot send request: "
LogCompleted == "Completed in "
LogCannotRead == "Cannot read response body: "
LogStatus == "BRI HTTP status response: "
LogBody == "BRI body response: "

ErrorLines == {LogRequestCreationFailed, LogCannotSend, LogCannotRead}

LogIf(cond, line) == IF cond THEN <<line>> ELSE <<>>

(***************************** inputs **************************************)
LogLevels == 0..MaxLogLevel
Clients == [LogLevel : LogLevels]

StatusOK == 200
StatusCodes == {200, 204, 400, 404, 500}

\* A response body, by what json.Unmarshal makes of it: whether it is JSON
\* at all, and whether it fits the record behind v and the one behind vErr.
Bodies ==
  {b \in [json : BOOLEAN, fitsV : BOOLEAN, fitsVErr : BOOLEAN] :
     ~b.json => (~b.fitsV /\ ~b.fitsVErr)}

NoBody == [json |-> FALSE, fitsV |-> FALSE, fitsVErr |-> FALSE]

\* What the HTTP client's Do and the read of the response body produce.
Transports ==
  {t \in [ioErr : BOOLEAN, StatusCode : StatusCodes, readErr : BOOLEAN, body : Bodies] :
     /\ t.ioErr => (t.StatusCode = 200 /\ ~t.readErr /\ t.body = NoBody)
     /\ t.readErr => t.body = NoBody}

NoTransport == [ioErr |-> TRUE, StatusCode |-> 200, readErr |-> FALSE, body |-> NoBody]

Methods == {"POST", "BAD METHOD"}
ValidMethods == {"GET", "POST", "PATCH", "PUT", "DELETE"}

GoodHost == "https://partner.api.bri.co.id"
BadHost == "http://[::1"
Hosts == {GoodHost, BadHost}

HeaderNames == {"Authorization", "BRI-Timestamp", "BRI-Signature", "Content-Type"}

\* http.Header.Set stores a value under the canonical form of its key.
CanonicalMIMEHeaderKey(k) ==
  CASE k = "BRI-Timestamp" -> "Bri-Timestamp"
    [] k = "BRI-Signature" -> "Bri-Signature"
    [] OTHER -> k

CanonicalNames(headers) == {CanonicalMIMEHeaderKey(k) : k \in DOMAIN headers}

SetHeaders(headers) ==
  [ck \in CanonicalNames(headers) |->
     headers[CHOOSE k \in DOMAIN headers : CanonicalMIMEHeaderKey(k) = ck]]

NoHeaders == [k \in {} |-> <<>>]

NoWire ==
  [built |-> FALSE, Method |-> "", URL |-> [host |-> "", path |-> <<>>],
   Header |-> NoHeaders, Body |-> <<>>]

(***************************** transport ***********************************)
\* Client.NewRequest: http.NewRequest fails on an invalid method or a URL
\* that does not parse; the failure is logged from level 1 on.
NewRequest(c, method, fullPath, headers, body) ==
  LET err == IF method \notin ValidMethods THEN ErrInvalidMethod
             ELSE IF fullPath.host = BadHost THEN ErrParseURL
             ELSE NoErr
  IN IF err # NoErr
     THEN [req |-> NoWire, err |-> err,
           log |-> LogIf(c.LogLevel > 0, LogRequestCreationFailed)]
     ELSE [req |-> [built |-> TRUE, Method |-> method, URL |-> fullPath,
                    Header |-> SetHeaders(headers), Body |-> body],
           err |-> NoErr, log |-> <<>>]

\* json.Unmarshal(resBody, sink)
Unmarshal(resBody, fits, failure) ==
  IF resBody.json /\ fits THEN NoErr ELSE failure

DecodeSentinelAnyStatus(StatusCode, resBody, v, vErr) ==
  IF ~v THEN [err |-> NoErr, vTouched |-> FALSE, vErrTouched |-> FALSE]
  ELSE IF Unmarshal(resBody, resBody.fitsV, ErrUnmarshalV) = NoErr
       THEN [err |-> NoErr, vTouched |-> TRUE, vErrTouched |-> FALSE]
       ELSE [err |-> ErrPendingTransaction, vTouched |-> TRUE, vErrTouched |-> vErr]

DecodeAlwaysErrorSink(StatusCode, resBody, v, vErr) ==
  LET e1 == IF v THEN Unmarshal(resBody, resBody.fitsV, ErrUnmarshalV) ELSE NoErr
      e2 == IF vErr THEN Unmarshal(resBody, resBody.fitsVErr, ErrUnmarshalVErr) ELSE e1
  IN [err |-> IF e1 = NoErr THEN NoErr
              ELSE IF StatusCode = StatusOK THEN ErrPendingTransaction ELSE e2,
      vTouched |-> v, vErrTouched |-> vErr]

\* ExecuteRequest, the decoding: skipped without a success sink; when the
\* success sink does not take the body, err is overwritten by the result of
\* decoding into the error sink (if there is one), status 200 gives the
\* sentinel and every other status gives err as it then stands.
Decode(StatusCode, resBody, v, vErr) ==
  IF ~v THEN [err |-> NoErr, vTouched |-> FALSE, vErrTouched |-> FALSE]
  ELSE LET e1 == Unmarshal(resBody, resBody.fitsV, ErrUnmarshalV)
           e2 == IF vErr THEN Unmarshal(resBody, resBody.fitsVErr, ErrUnmarshalVErr)
                 ELSE e1
       IN IF e1 = NoErr
          THEN [err |-> NoErr, vTouched |-> TRUE, vErrTouched |-> FALSE]
          ELSE [err |-> IF StatusCode = StatusOK THEN ErrPendingTransaction ELSE e2,
                vTouched |-> TRUE, vErrTouched |-> vErr]

ClassifyNo404(StatusCode, resBody, v, vErr) ==
  IF StatusCode = 204
  THEN [err |-> ErrEmptyResponse, vTouched |-> FALSE, vErrTouched |-> FALSE]
  ELSE Decode(StatusCode, resBody, v, vErr)

\* ExecuteRequest, the status classification that follows the body read.
Classify(StatusCode, resBody, v, vErr) ==
  IF StatusCode = 404
  THEN [err |-> ErrInvalidURL, vTouched |-> FALSE, vErrTouched |-> FALSE]
  ELSE IF StatusCode = 204
  THEN [err |-> ErrEmptyResponse, vTouched |-> FALSE, vErrTouched |-> FALSE]
  ELSE Decode(StatusCode, resBody, v, vErr)

\* Client.ExecuteRequest.  tr is what Do and ioutil.ReadAll produce.  The
\* second "if err != nil" of the source follows a return on the same err and
\* never runs.
ExecuteRequest(c, req, v, vErr, tr) ==
  LET l1 == LogIf(c.LogLevel > 1, LogRequest)
  IN IF tr.ioErr
     THEN [err |-> ErrTransport, log |-> l1 \o LogIf(c.LogLevel > 0, LogCannotSend),
           bodyRead |-> FALSE, vTouched |-> FALSE, vErrTouched |-> FALSE]
     ELSE LET l2 == l1 \o LogIf(c.LogLevel > 2, LogCompleted)
          IN IF tr.readErr
             THEN [err |-> ErrRead, log |-> l2 \o LogIf(c.LogLevel > 0, LogCannotRead),
                   bodyRead |-> TRUE, vTouched |-> FALSE, vErrTouched |-> FALSE]
             ELSE LET l3 == l2 \o LogIf(c.LogLevel > 2, LogStatus)
                                \o LogIf(c.LogLevel > 2, LogBody)
                      d == Classify(tr.StatusCode, tr.body, v, vErr)
                  IN [err |-> d.err, log |-> l3, bodyRead |-> TRUE,
                      vTouched |-> d.vTouched, vErrTouched |-> d.vErrTouched]

\* Client.Call: NewRequest, then ExecuteRequest unless the build failed.
\* The result carries the request built and whether it was executed.
ClientCall(c, method, path, header, body, v, vErr, tr) ==
  LET n == NewRequest(c, method, path, header, body)
  IN IF n.err # NoErr
     THEN [req |-> n.req, executed |-> FALSE, err |-> n.err, log |-> n.log,
           bodyRead |-> FALSE, vTouched |-> FALSE, vErrTouched |-> FALSE]
     ELSE LET e == ExecuteRequest(c, n.req, v, vErr, tr)
          IN [req |-> n.req, executed |-> TRUE, err |-> e.err, log |-> n.log \o e.log,
              bodyRead |-> e.bodyRead, vTouched |-> e.vTouched,
              vErrTouched |-> e.vErrTouched]

NoCall ==
  [made |-> FALSE, c |-> [LogLevel |-> 0], v |-> FALSE, vErr |-> FALSE,
   tr |-> NoTransport, executed |-> FALSE, err |-> NoErr, log |-> <<>>,
   bodyRead |-> FALSE, vTouched |-> FALSE, vErrTouched |-> FALSE]

\* The record of one finished Client.Call: its inputs and its outcome.
CallRecord(c, v, vErr, tr, r) ==
  [made |-> TRUE, c |-> c, v |-> v, vErr |-> vErr,
   tr |-> IF r.executed THEN tr ELSE NoTransport,
   executed |-> r.executed, err |-> r.err, log |-> r.log, bodyRead |-> r.bodyRead,
   vTouched |-> r.vTouched, vErrTouched |-> r.vErrTouched]

(***************************** endpoint paths ******************************)
UrlNames ==
  {"urlCreateCardTokenOTP", "urlCreateCardTokenOTPVerify", "urlDeleteCardToken",
   "urlCreatePaymentChargeOTP", "urlCreatePaymentChargeOTPVerify",
   "urlChargeDetail", "urlRefundDirectDebit"}

Suffix(name) ==
  CASE name = "urlCreateCardTokenOTP" -> <<"tokens">>
    [] name = "urlCreateCardTokenOTPVerify" -> <<"tokens">>
    [] name = "urlDeleteCardToken" -> <<"tokens">>
    [] name = "urlCreatePaymentChargeOTP" -> <<"charges">>
    [] name = "urlCreatePaymentChargeOTPVerify" -> <<"charges", "verify">>
    [] name = "urlChargeDetail" -> <<"charges", "inquiry">>
    [] name = "urlRefundDirectDebit" -> <<"refunds">>

SandboxPrefix == <<"sandbox", "v1", "directdebit">>
ProductionPrefix == <<"v1", "rt-directdebit">>
DeclaredPrefix == <<"v1", "directdebit">>

EnvPrefix(use) == IF use THEN SandboxPrefix ELSE ProductionPrefix

\* The four paths as direct_debit.go declares them.  The declaration reads
\* const, yet DirectDebitHostUseSandboxPrefix assigns to the four names: they
\* are the package variables that the assignments require.
DeclaredUrl(name) == DeclaredPrefix \o Suffix(name)

\* urlDeleteCardToken, urlChargeDetail and urlRefundDirectDebit are declared
\* in files of the package that are not at hand; they are given the value
\* their four siblings have.  No property below rests on it.
UndeclaredUrl(name) == DeclaredPrefix \o Suffix(name)

InitialUrl(name) ==
  IF name \in {"urlCreateCardTokenOTP", "urlCreateCardTokenOTPVerify",
               "urlCreatePaymentChargeOTP", "urlCreatePaymentChargeOTPVerify"}
  THEN DeclaredUrl(name)
  ELSE UndeclaredUrl(name)

SwitchedUrlChargeDetailSlip(use, name) ==
  IF name = "urlChargeDetail" /\ ~use
  THEN SandboxPrefix \o Suffix(name)
  ELSE EnvPrefix(use) \o Suffix(name)

\* DirectDebitHostUseSandboxPrefix: the value the branch for `use` stores
\* into the variable `name`.
SwitchedUrl(use, name) ==
  IF use
  THEN CASE name = "urlCreateCardTokenOTP" -> <<"sandbox", "v1", "directdebit", "tokens">>
         [] name = "urlCreateCardTokenOTPVerify" -> <<"sandbox", "v1", "directdebit", "tokens">>
         [] name = "urlDeleteCardToken" -> <<"sandbox", "v1", "directdebit", "tokens">>
         [] name = "urlCreatePaymentChargeOTP" -> <<"sandbox", "v1", "directdebit", "charges">>
         [] name = "urlCreatePaymentChargeOTPVerify" ->
              <<"sandbox", "v1", "directdebit", "charges", "verify">>
         [] name = "urlChargeDetail" -> <<"sandbox", "v1", "directdebit", "charges", "inquiry">>
         [] name = "urlRefundDirectDebit" -> <<"sandbox", "v1", "directdebit", "refunds">>
  ELSE CASE name = "urlCreateCardTokenOTP" -> <<"v1", "rt-directdebit", "tokens">>
         [] name = "urlCreateCardTokenOTPVerify" -> <<"v1", "rt-directdebit", "tokens">>
         [] name = "urlDeleteCardToken" -> <<"v1", "rt-directdebit", "tokens">>
         [] name = "urlCreatePaymentChargeOTP" -> <<"v1", "rt-directdebit", "charges">>
         [] name = "urlCreatePaymentChargeOTPVerify" ->
              <<"v1", "rt-directdebit", "charges", "verify">>
         [] name = "urlChargeDetail" -> <<"v1", "rt-directdebit", "charges", "inquiry">>
         [] name = "urlRefundDirectDebit" -> <<"v1", "rt-directdebit", "refunds">>

HasPrefix(p, pre) == Len(p) >= Len(pre) /\ SubSeq(p, 1, Len(pre)) = pre

(***************************** facade values *******************************)
\* Tokens and request payloads are opaque to the operations.
Tokens == {<<"token">>}
Payloads == {"payload"}
Times == 1..MaxTime
OtpBriStatuses == {"", "NO"}

CardTokenOTPRequests == [Body : [OtpBriStatus : OtpBriStatuses, Payload : Payloads]]
OtherRequests == [Body : [Payload : Payloads]]

ClientSecret == "client-secret"
DirectDebitBaseURL == GoodHost

\* NewClient sets LogLevel 2.
DefaultLogLevel == 2
GatewayClient == [LogLevel |-> DefaultLogLevel]

\* "Bearer " + token
Bearer(token) == <<"Bearer ">> \o token

\* json.Marshal(req): the encoding is opaque, one text per record.
Marshal(req) == <<"json", req>>

\* getTimestamp(BRI_TIME_FORMAT) at the instant t.
getTimestamp(t) == <<"BRI_TIME_FORMAT", t>>

\* generateSignature: a keyed digest of its six arguments, opaque here.
generateSignature(path, method, token, timestamp, body, secret) ==
  <<"signature", path, method, token, timestamp, body, secret>>

\* The package variable an operation reads for its path.
UrlOf(name) ==
  CASE name = "CreateCardTokenOTP" -> "urlCreateCardTokenOTP"
    [] name = "CreateCardTokenOTPVerify" -> "urlCreateCardTokenOTPVerify"
    [] name = "CreatePaymentChargeOTP" -> "urlCreatePaymentChargeOTP"
    [] name = "CreatePaymentChargeOTPVerify" -> "urlCreatePaymentChargeOTPVerify"

NoSigned ==
  [path |-> <<>>, method |-> "", token |-> <<>>, timestamp |-> <<>>, body |-> <<>>,
   secret |-> ""]

NoOp ==
  [pc |-> "idle", name |-> "", in |-> [token |-> <<>>, req |-> [Body |-> [Payload |-> ""]]],
   token |-> <<>>, method |-> "", body |-> <<>>, timestamp |-> <<>>,
   signature |-> <<>>, signed |-> NoSigned, callPath |-> <<>>,
   overlap |-> FALSE, settled |-> FALSE, use |-> FALSE]

SignedLocalsBodyDropped(path, method, token, body, timestamp) ==
  [token |-> token, method |-> method, body |-> body, timestamp |-> timestamp,
   signature |-> generateSignature(path, method, token, timestamp, <<>>, ClientSecret),
   signed |-> [path |-> path, method |-> method, token |-> token,
               timestamp |-> timestamp, body |-> <<>>, secret |-> ClientSecret]]

\* The locals of an operation once generateSignature has returned: token,
\* method, body, timestamp and signature, and the arguments that were signed.
SignedLocals(path, method, token, body, timestamp) ==
  [token |-> token, method |-> method, body |-> body, timestamp |-> timestamp,
   signature |-> generateSignature(path, method, token, timestamp, body, ClientSecret),
   signed |-> [path |-> path, method |-> method, token |-> token,
               timestamp |-> timestamp, body |-> body, secret |-> ClientSecret]]

\* The headers map every operation builds.
Headers(token, timestamp, signature) ==
  [k \in HeaderNames |->
     CASE k = "Authorization" -> token
       [] k = "BRI-Timestamp" -> timestamp
       [] k = "BRI-Signature" -> signature
       [] k = "Content-Type" -> <<"application/json">>]

\* CoreGateway.Call: the path is put behind the direct-debit base URL and the
\* request goes through Client.Call with the success sink and no error sink.
GatewayCall(method, path, headers, body, tr) ==
  ClientCall(GatewayClient, method, [host |-> DirectDebitBaseURL, path |-> path],
             headers, body, TRUE, FALSE, tr)

(***************************** state ***************************************)
\* url: the package-level endpoint paths.
\* sw: the caller of DirectDebitHostUseSandboxPrefix: the stores it has still
\*     to make, its argument, and whether a call has completed.
\* op: the caller of the operations: its position, its inputs and locals, the
\*     path it passed to Call, and (for stating the properties) whether a
\*     switch was in flight during the operation and which completed switch,
\*     if any, preceded it.
\* wire: the request NewRequest built for the last call.
\* call: the inputs and the outcome of the last Client.Call.
Init ==
  /\ url = [n \in UrlNames |-> InitialUrl(n)]
  /\ sw = [pending |-> {}, use |-> FALSE, done |-> FALSE]
  /\ op = NoOp
  /\ wire = NoWire
  /\ call = NoCall

(***************************** Client.Call *********************************)
CallHeaders == [k \in {"Content-Type"} |-> <<"application/json">>]

\* An application calls the exported Client.Call.
Call(c, method, host, v, vErr, tr) ==
  LET r == ClientCall(c, method, [host |-> host, path |-> <<"v1", "any">>],
                      CallHeaders, <<>>, v, vErr, tr)
  IN /\ wire' = r.req
     /\ call' = CallRecord(c, v, vErr, tr, r)
     /\ UNCHANGED <<url, sw, op>>

Next ==
  \E c \in Clients, method \in Methods, host \in Hosts,
     v \in BOOLEAN, vErr \in BOOLEAN, tr \in Transports :
    Call(c, method, host, v, vErr, tr)

Spec == Init /\ [][Next]_vars

(***************************** the endpoint switch *************************)
\* DirectDebitHostUseSandboxPrefix(use) is entered: the branch is chosen and
\* its seven stores are still to be made.
DirectDebitHostUseSandboxPrefix(use) ==
  /\ sw.pending = {}
  /\ sw' = [sw EXCEPT !.pending = UrlNames, !.use = use]
  /\ op' = IF op.pc = "signed" THEN [op EXCEPT !.overlap = TRUE] ELSE op
  /\ UNCHANGED <<url, wire, call>>

\* One store of the chosen branch becomes visible.  The function returns
\* with the last one.
AssignUrl(name) ==
  /\ name \in sw.pending
  /\ url' = [url EXCEPT ![name] = SwitchedUrl(sw.use, name)]
  /\ sw' = [sw EXCEPT !.pending = sw.pending \ {name},
                      !.done = sw.done \/ sw.pending = {name}]
  /\ op' = IF op.pc = "signed" THEN [op EXCEPT !.overlap = TRUE] ELSE op
  /\ UNCHANGED <<wire, call>>

(***************************** the operations ******************************)
\* The caller's state once an operation has run up to the return of
\* generateSignature.
Entered(name, token, req, locals) ==
  [pc |-> "signed", name |-> name, in |-> [token |-> token, req |-> req],
   token |-> locals.token, method |-> locals.method, body |-> locals.body,
   timestamp |-> locals.timestamp, signature |-> locals.signature,
   signed |-> locals.signed, callPath |-> <<>>,
   overlap |-> sw.pending # {},
   settled |-> sw.pending = {} /\ sw.done,
   use |-> sw.pending = {} /\ sw.done /\ sw.use]

ForceOtp(req) == [req EXCEPT !.Body.OtpBriStatus = "YES"]

CreateCardTokenOTP(token, req, t) ==
  /\ op.pc \in {"idle", "done"}
  /\ op' = Entered("CreateCardTokenOTP", token, req,
                   SignedLocals(url["urlCreateCardTokenOTP"], "POST", Bearer(token),
                                Marshal(ForceOtp(req)), getTimestamp(t)))
  /\ wire' = NoWire
  /\ call' = NoCall
  /\ UNCHANGED <<url, sw>>

CreateCardTokenOTPVerify(token, req, t) ==
  /\ op.pc \in {"idle", "done"}
  /\ op' = Entered("CreateCardTokenOTPVerify", token, req,
                   SignedLocals(url["urlCreateCardTokenOTPVerify"], "PATCH", Bearer(token),
                                Marshal(req), getTimestamp(t)))
  /\ wire' = NoWire
  /\ call' = NoCall
  /\ UNCHANGED <<url, sw>>

CreatePaymentChargeOTP(token, req, t) ==
  /\ op.pc \in {"idle", "done"}
  /\ op' = Entered("CreatePaymentChargeOTP", token, req,
                   SignedLocals(url["urlCreatePaymentChargeOTP"], "POST", Bearer(token),
                                Marshal(req), getTimestamp(t)))
  /\ wire' = NoWire
  /\ call' = NoCall
  /\ UNCHANGED <<url, sw>>

CreatePaymentChargeOTPVerify(token, req, t) ==
  /\ op.pc \in {"idle", "done"}
  /\ op' = Entered("CreatePaymentChargeOTPVerify", token, req,
                   SignedLocals(url["urlCreatePaymentChargeOTPVerify"], "POST", Bearer(token),
                                Marshal(req), getTimestamp(t)))
  /\ wire' = NoWire
  /\ call' = NoCall
  /\ UNCHANGED <<url, sw>>

\* The responses the operations are run against.
FacadeTransports ==
  {t \in Transports :
     \/ t.ioErr
     \/ /\ ~t.readErr
        /\ t.StatusCode \in {200, 404}
        /\ t.body.json /\ t.body.fitsVErr
        /\ (t.StatusCode = 404 => t.body.fitsV)}

\* The rest of an operation: the headers are built from the locals, the path
\* is read again and passed to Call, and the operation returns.
Send(tr) ==
  /\ op.pc = "signed"
  /\ LET path == url[UrlOf(op.name)]
         r == GatewayCall(op.method, path,
                          Headers(op.token, op.timestamp, op.signature), op.body, tr)
     IN /\ wire' = r.req
        /\ call' = CallRecord(GatewayClient, TRUE, FALSE, tr, r)
        /\ op' = [op EXCEPT !.pc = "done", !.callPath = path]
  /\ UNCHANGED <<url, sw>>

NextFacade ==
  \/ \E use \in BOOLEAN : DirectDebitHostUseSandboxPrefix(use)
  \/ \E name \in UrlNames : AssignUrl(name)
  \/ \E token \in Tokens, req \in CardTokenOTPRequests, t \in Times :
       CreateCardTokenOTP(token, req, t)
  \/ \E token \in Tokens, req \in OtherRequests, t \in Times :
       CreateCardTokenOTPVerify(token, req, t)
  \/ \E token \in Tokens, req \in OtherRequests, t \in Times :
       CreatePaymentChargeOTP(token, req, t)
  \/ \E token \in Tokens, req \in OtherRequests, t \in Times :
       CreatePaymentChargeOTPVerify(token, req, t)
  \/ \E tr \in FacadeTransports : Send(tr)

SpecFacade == Init /\ [][NextFacade]_vars

(***************************** properties of Client.Call *******************)
\* The last call reached the status classification: a response came back
\* and its body was read.
Responded == call.made /\ call.executed /\ ~call.tr.ioErr /\ ~call.tr.readErr

Decodable == Responded /\ call.tr.StatusCode \notin {404, 204}

SuccessDecodeFails ==
  call.v /\ Unmarshal(call.tr.body, call.tr.body.fitsV, ErrUnmarshalV) # NoErr

InLog(line) == \E i \in 1..Len(call.log) : call.log[i] = line

\* C1: for a response other than 404 and 204 whose body was read, when a
\* success sink is supplied, the body does not decode into it and an error
\* sink is supplied, the body is decoded into the error sink and the call
\* returns a non-nil error, whatever the status and whatever the decode into
\* the error sink gives.
ErrorSinkDecodeStillFails ==
  (Decodable /\ SuccessDecodeFails /\ call.vErr)
    => (call.vErrTouched /\ call.err # NoErr)

\* C2: with status 200, a success sink and a body that does not decode into
\* it, the call returns the sentinel ErrPendingTransaction, with or without an
\* error sink and whatever the decode into it gives; the sentinel is returned
\* for no other status and by no other way out of the call.
PendingOnlyOn200 ==
  /\ (Responded /\ call.tr.StatusCode = StatusOK /\ SuccessDecodeFails)
       => call.err = ErrPendingTransaction
  /\ (call.made /\ call.err = ErrPendingTransaction)
       => (call.executed /\ ~call.tr.ioErr /\ call.tr.StatusCode = StatusOK)

PendingWithErrorSinkDecoded ==
  /\ Responded /\ call.tr.StatusCode = StatusOK /\ SuccessDecodeFails
  /\ call.vErr /\ call.tr.body.json /\ call.tr.body.fitsVErr
  /\ call.err = ErrPendingTransaction

\* C3, as stated: a 404 response makes the call fail with "invalid url" and
\* a 204 response with the empty-response error whatever happens to the
\* body, a failed read included, and neither sink is written.
StatusAloneDecides404And204 ==
  (call.made /\ call.executed /\ ~call.tr.ioErr)
    => /\ call.tr.StatusCode = 404 => call.err = ErrInvalidURL
       /\ call.tr.StatusCode = 204 => call.err = ErrEmptyResponse
       /\ call.tr.StatusCode \in {404, 204} => (~call.vTouched /\ ~call.vErrTouched)

\* C3, amended: the body is read for every status before the status is
\* looked at; a 404 or 204 response whose body was read gives "invalid url"
\* or the empty-response error whatever the body and the sinks are, a failed
\* read gives the read error instead, and neither sink is written.
StatusDecides404And204AfterRead ==
  (call.made /\ call.executed /\ ~call.tr.ioErr /\ call.tr.StatusCode \in {404, 204})
    => /\ call.bodyRead
       /\ call.tr.readErr => call.err = ErrRead
       /\ (~call.tr.readErr /\ call.tr.StatusCode = 404) => call.err = ErrInvalidURL
       /\ (~call.tr.readErr /\ call.tr.StatusCode = 204) => call.err = ErrEmptyResponse
       /\ ~call.vTouched /\ ~call.vErrTouched

InvalidURLDespiteDecodableBody ==
  /\ Responded /\ call.tr.StatusCode = 404
  /\ call.v /\ call.vErr /\ call.tr.body.json /\ call.tr.body.fitsV
  /\ call.err = ErrInvalidURL /\ ~call.vTouched

\* C9: at level 0 nothing is logged; from level 1 on every call that returns
\* an error has logged an error line; an executed request has logged its
\* start line exactly from level 2 on; the completion, status and body lines
\* appear only from level 3 on.
LevelGatedLogging ==
  call.made
    => /\ call.c.LogLevel = 0 => call.log = <<>>
       /\ (call.c.LogLevel >= 1 /\ call.err # NoErr)
            => \E line \in ErrorLines : InLog(line)
       /\ call.executed => (InLog(LogRequest) <=> call.c.LogLevel >= 2)
       /\ (InLog(LogCompleted) \/ InLog(LogStatus) \/ InLog(LogBody))
            => call.c.LogLevel >= 3

\* C10: for a response other than 404 and 204 whose body was read, when the
\* body decodes into the success sink or no success sink is supplied, the
\* call returns nil and the error sink is not written.
SuccessLeavesErrorSink ==
  (Decodable /\ ~SuccessDecodeFails)
    => (call.err = NoErr /\ ~call.vErrTouched)

ServerErrorStatusDecodedAsSuccess ==
  /\ Decodable /\ call.tr.StatusCode = 500
  /\ call.v /\ call.vErr /\ ~SuccessDecodeFails /\ call.vTouched
  /\ call.err = NoErr

(***************************** properties of the operations ****************)
Finished == op.pc = "done"

SentBody ==
  IF op.name = "CreateCardTokenOTP" THEN Marshal(ForceOtp(op.in.req))
  ELSE Marshal(op.in.req)

\* C5: when no switch was in flight during an operation, what was signed is
\* what was sent: the path is the one passed to Call, the method the request
\* method, the token the Authorization value "Bearer "+token, the timestamp
\* the BRI-Timestamp value, the body the body sent (with OtpBriStatus forced
\* to "YES" for CreateCardTokenOTP), and BRI-Signature is the signature of
\* these values under the client secret.
SignedIsSent ==
  (Finished /\ ~op.overlap)
    => /\ wire.built
       /\ op.signed.path = op.callPath
       /\ wire.URL.path = op.callPath
       /\ op.signed.method = wire.Method
       /\ op.signed.token = wire.Header["Authorization"]
       /\ wire.Header["Authorization"] = Bearer(op.in.token)
       /\ op.signed.timestamp = wire.Header["Bri-Timestamp"]
       /\ op.signed.body = wire.Body
       /\ wire.Body = SentBody
       /\ op.signed.secret = ClientSecret
       /\ wire.Header["Bri-Signature"] =
            generateSignature(op.callPath, wire.Method, wire.Header["Authorization"],
                              wire.Header["Bri-Timestamp"], wire.Body, ClientSecret)

CardTokenSentWithForcedOtp ==
  /\ Finished /\ ~op.overlap /\ op.name = "CreateCardTokenOTP"
  /\ op.in.req.Body.OtpBriStatus = "NO"
  /\ wire.built /\ wire.Body = Marshal(ForceOtp(op.in.req))
  /\ call.err = NoErr

\* C6: an operation that reads its path once for signing and once for
\* sending gets both reads from the same set, also while a switch runs.
SignedPathIsSentPath ==
  Finished => op.signed.path = op.callPath

\* C7: once a switch with argument b has completed and no other is in
\* flight, each of the seven paths is the prefix for b followed by its own
\* suffix, whatever the earlier calls were; an operation run after it signs
\* and sends a path with that prefix.
SwitchSetsEveryPath ==
  /\ (sw.pending = {} /\ sw.done)
       => \A n \in UrlNames : url[n] = EnvPrefix(sw.use) \o Suffix(n)
  /\ (Finished /\ op.settled /\ ~op.overlap)
       => /\ HasPrefix(op.signed.path, EnvPrefix(op.use))
          /\ HasPrefix(wire.URL.path, EnvPrefix(op.use))

ProductionAfterSandbox ==
  /\ sw.pending = {} /\ sw.done /\ ~sw.use
  /\ Finished /\ op.settled /\ ~op.overlap /\ op.use
  /\ HasPrefix(wire.URL.path, SandboxPrefix)
  /\ url["urlChargeDetail"] = <<"v1", "rt-directdebit", "charges", "inquiry">>

\* C8: in every state, the initial one and those between two stores of a
\* switch included, the paths are all sandbox paths or all production paths.
OneCompleteSetAlways ==
  \/ \A n \in UrlNames : url[n] = SandboxPrefix \o Suffix(n)
  \/ \A n \in UrlNames : url[n] = ProductionPrefix \o Suffix(n)

====
